---------------------------- MODULE Spec2Model ----------------------------
(***************************************************************************)
(* The report-analysis pipeline of app.py: Ok(pdf_path) extracts the text  *)
(* of a PDF, pulls five fields out of it with regular expressions, takes   *)
(* the first table, classifies the sentiment, and derives a score, a risk  *)
(* tier, two style fits and a growth/risk assessment.                      *)
(*                                                                         *)
(* Strings that the code matches, captures or converts are sequences of    *)
(* one-character strings, so that the regular expressions, re.sub and      *)
(* float() are computed on the characters.  Table cells and labels that    *)
(* the code only compares for equality are plain strings.  The PDF         *)
(* library and the sentiment classifier are external: a document is its    *)
(* pages (text and tables) or is unreadable, and the classifier returns    *)
(* any label and confidence or raises.                                     *)
(***************************************************************************)
EXTENDS Integers, Sequences, FiniteSets

\* ------------------------------------------------------------------------
\* Bounds
\* ------------------------------------------------------------------------

\* The largest number of pages of a document.
MaxPages == 2

\* ------------------------------------------------------------------------
\* Characters
\* ------------------------------------------------------------------------

UpperChars ==
    <<"A","B","C","D","E","F","G","H","I","J","K","L","M",
      "N","O","P","Q","R","S","T","U","V","W","X","Y","Z">>

LowerChars ==
    <<"a","b","c","d","e","f","g","h","i","j","k","l","m",
      "n","o","p","q","r","s","t","u","v","w","x","y","z">>

DigitChars == <<"0","1","2","3","4","5","6","7","8","9">>

\* Case folding of one character, as re.IGNORECASE compares characters.
Lower(c) ==
    IF \E k \in DOMAIN UpperChars : UpperChars[k] = c
    THEN LowerChars[CHOOSE k \in DOMAIN UpperChars : UpperChars[k] = c]
    ELSE c

\* \d
IsDigit(c) == \E k \in DOMAIN DigitChars : DigitChars[k] = c

DigitVal(c) == (CHOOSE k \in DOMAIN DigitChars : DigitChars[k] = c) - 1

\* [:\s]
IsSep(c) == c \in {":", " "}

\* The "Not Found" marker of extract_key_info, as a string of characters.
NotFound ==
    <<"N","o","t"," ","F","o","u","n","d">>

\* The literal prefixes of the five patterns of extract_key_info.
LitPriceTarget ==
    <<"P","r","i","c","e"," ","T","a","r","g","e","t">>

LitRecommendation ==
    <<"R","e","c","o","m","m","e","n","d","a","t","i","o","n">>

LitRevenue ==
    <<"R","e","v","e","n","u","e">>

LitNetIncome ==
    <<"N","e","t"," ","I","n","c","o","m","e">>

LitEPS ==
    <<"E","P","S">>

\* The alternatives of the recommendation pattern, and the values the scoring compares with.
LitBuy ==
    <<"B","u","y">>

LitSell ==
    <<"S","e","l","l">>

LitHold ==
    <<"H","o","l","d">>
\* "Recommendation: Buy. Price Target: $50. Revenue: $5B. Net Income: $1B. EPS: $2.5"
TextScenario ==
    <<"R","e","c","o","m","m","e","n","d","a","t","i","o","n",":"," ","B",
      "u","y","."," ","P","r","i","c","e"," ","T","a","r","g","e","t",":",
      " ","$","5","0","."," ","R","e","v","e","n","u","e",":"," ","$","5",
      "B","."," ","N","e","t"," ","I","n","c","o","m","e",":"," ","$","1",
      "B","."," ","E","P","S",":"," ","$","2",".","5">>

\* "recommendation: buy. price target: $50. revenue: $5b. net income: $1b. eps: $2.5"
TextLower ==
    <<"r","e","c","o","m","m","e","n","d","a","t","i","o","n",":"," ","b",
      "u","y","."," ","p","r","i","c","e"," ","t","a","r","g","e","t",":",
      " ","$","5","0","."," ","r","e","v","e","n","u","e",":"," ","$","5",
      "b","."," ","n","e","t"," ","i","n","c","o","m","e",":"," ","$","1",
      "b","."," ","e","p","s",":"," ","$","2",".","5">>

\* "Recommendation: Hold. Price Target: 12.5 Revenue: 0.5B Net Income: 1m EPS: 0"
TextHold ==
    <<"R","e","c","o","m","m","e","n","d","a","t","i","o","n",":"," ","H",
      "o","l","d","."," ","P","r","i","c","e"," ","T","a","r","g","e","t",
      ":"," ","1","2",".","5"," ","R","e","v","e","n","u","e",":"," ","0",
      ".","5","B"," ","N","e","t"," ","I","n","c","o","m","e",":"," ","1",
      "m"," ","E","P","S",":"," ","0">>

\* "Recommendation: Sell. Price Target: $0"
TextSell ==
    <<"R","e","c","o","m","m","e","n","d","a","t","i","o","n",":"," ","S",
      "e","l","l","."," ","P","r","i","c","e"," ","T","a","r","g","e","t",
      ":"," ","$","0">>

\* "RECOMMENDATION: BUY"
TextUpper ==
    <<"R","E","C","O","M","M","E","N","D","A","T","I","O","N",":"," ","B",
      "U","Y">>

\* "Quarterly outlook"
TextPlain ==
    <<"Q","u","a","r","t","e","r","l","y"," ","o","u","t","l","o","o","k">>

\* ------------------------------------------------------------------------
\* Regular expressions of extract_key_info, on sequences of characters
\* ------------------------------------------------------------------------

\* The literal lit matches the text t at position i, ignoring case.
LitAt(t, i, lit) ==
    /\ i + Len(lit) - 1 <= Len(t)
    /\ \A k \in 1..Len(lit) : Lower(t[i + k - 1]) = Lower(lit[k])

\* [:\s]* from position j: the position after the separators (greedy).
RECURSIVE SkipSep(_, _)
SkipSep(t, j) ==
    IF j <= Len(t) /\ IsSep(t[j]) THEN SkipSep(t, j + 1) ELSE j

\* \$? from position j.
SkipDollar(t, j) == IF j <= Len(t) /\ t[j] = "$" THEN j + 1 ELSE j

\* \d* from position j: the position after the digits (greedy).
RECURSIVE SkipDigits(_, _)
SkipDigits(t, j) ==
    IF j <= Len(t) /\ IsDigit(t[j]) THEN SkipDigits(t, j + 1) ELSE j

\* \d+\.?\d* from position j: the position after the number, j when there
\* is no digit at j (the group does not match).
NumberEnd(t, j) ==
    LET a == SkipDigits(t, j)
        b == IF a <= Len(t) /\ t[a] = "." THEN a + 1 ELSE a
    IN  IF a = j THEN j ELSE SkipDigits(t, b)

\* [BM]? from position j under re.IGNORECASE.
SkipScale(t, j) ==
    IF j <= Len(t) /\ Lower(t[j]) \in {"b", "m"} THEN j + 1 ELSE j

\* The group of  lit[:\s]*\$?(\d+\.?\d*)  or, with scale, of
\* lit[:\s]*\$?(\d+\.?\d*[BM]?)  matched at position i: <<first, last+1>>
\* of the group, <<0, 0>> when the pattern does not match at i.
NumberGroupAt(t, i, lit, scale) ==
    IF ~LitAt(t, i, lit) THEN <<0, 0>>
    ELSE LET s == SkipDollar(t, SkipSep(t, i + Len(lit)))
             e == NumberEnd(t, s)
         IN  IF e = s THEN <<0, 0>>
             ELSE <<s, IF scale THEN SkipScale(t, e) ELSE e>>

\* The group of  Recommendation[:\s]*(Buy|Sell|Hold)  matched at position i.
WordGroupAt(t, i) ==
    IF ~LitAt(t, i, LitRecommendation) THEN <<0, 0>>
    ELSE LET s == SkipSep(t, i + Len(LitRecommendation))
         IN  IF LitAt(t, s, LitBuy) THEN <<s, s + Len(LitBuy)>>
             ELSE IF LitAt(t, s, LitSell) THEN <<s, s + Len(LitSell)>>
             ELSE IF LitAt(t, s, LitHold) THEN <<s, s + Len(LitHold)>>
             ELSE <<0, 0>>

\* re.search(...) followed by match.group(1) or "Not Found": the group of
\* the leftmost position where the pattern matches, as it is written in the
\* text; groups[i] is the group of the pattern matched at position i.
Search(t, groups) ==
    LET hits == {i \in DOMAIN groups : groups[i][1] # 0}
    IN  IF hits = {} THEN NotFound
        ELSE LET i == CHOOSE h \in hits : \A k \in hits : h <= k
             IN  SubSeq(t, groups[i][1], groups[i][2] - 1)

PriceTargetGroups(t) ==
    [i \in 1..Len(t) |-> NumberGroupAt(t, i, LitPriceTarget, FALSE)]
RecommendationGroups(t) ==
    [i \in 1..Len(t) |-> WordGroupAt(t, i)]
RevenueGroups(t) ==
    [i \in 1..Len(t) |-> NumberGroupAt(t, i, LitRevenue, TRUE)]
NetIncomeGroups(t) ==
    [i \in 1..Len(t) |-> NumberGroupAt(t, i, LitNetIncome, TRUE)]
EPSGroups(t) ==
    [i \in 1..Len(t) |-> NumberGroupAt(t, i, LitEPS, FALSE)]

extract_key_info(t) ==
    [price_target   |-> Search(t, PriceTargetGroups(t)),
     recommendation |-> Search(t, RecommendationGroups(t)),
     revenue        |-> Search(t, RevenueGroups(t)),
     net_income     |-> Search(t, NetIncomeGroups(t)),
     eps            |-> Search(t, EPSGroups(t))]

\* ------------------------------------------------------------------------
\* float() and re.sub
\* ------------------------------------------------------------------------

\* re.sub(r'[BM]', '', s): the upper-case scale markers removed (this
\* pattern is compiled without re.IGNORECASE).
StripScale(s) == SelectSeq(s, LAMBDA c : c \notin {"B", "M"})

\* float(s) raises ValueError unless s is digits with at most one point and
\* at least one digit (the only other characters a captured group can hold
\* are scale letters).
FloatOK(s) ==
    /\ \A k \in DOMAIN s : IsDigit(s[k]) \/ s[k] = "."
    /\ Cardinality({k \in DOMAIN s : s[k] = "."}) <= 1
    /\ \E k \in DOMAIN s : IsDigit(s[k])

RECURSIVE DigitsValue(_)
DigitsValue(s) ==
    IF s = <<>> THEN 0
    ELSE 10 * DigitsValue(SubSeq(s, 1, Len(s) - 1)) + DigitVal(s[Len(s)])

RECURSIVE Pow10(_)
Pow10(n) == IF n = 0 THEN 1 ELSE 10 * Pow10(n - 1)

\* float(s) for a string FloatOK accepts, as the fraction num / den.
Float(s) ==
    LET digits == SelectSeq(s, IsDigit)
        point  == IF \E k \in DOMAIN s : s[k] = "."
                  THEN CHOOSE k \in DOMAIN s : s[k] = "."
                  ELSE Len(s) + 1
        after  == Cardinality({k \in DOMAIN s : k > point})
    IN  [num |-> DigitsValue(digits), den |-> Pow10(after)]

\* float(s) > n
FloatGreater(s, n) == Float(s).num > n * Float(s).den

\* ------------------------------------------------------------------------
\* Documents
\* ------------------------------------------------------------------------

\* Tables as page.extract_tables() returns them: rows of cells, the first
\* row the header.
TableFull == << <<"Revenue", "Q1">>, <<"100", "200">> >>
TableHeaderOnly == << <<"Revenue", "Q1">> >>
TableNoRevenue == << <<"Item", "Q1">>, <<"Cost", "7">> >>

\* What page.extract_text() returns for a page; the empty text stands for a
\* page without text (None or "").
PageTexts ==
    {<<>>, TextPlain, TextScenario, TextLower, TextHold, TextSell, TextUpper}

\* What page.extract_tables() returns for a page.
PageTables ==
    {<<>>, <<TableFull>>, <<TableHeaderOnly>>, <<TableNoRevenue>>,
     <<TableNoRevenue, TableFull>>}

Pages == [text : PageTexts, tables : PageTables]

SeqsUpTo(S, n) == UNION {[1..k -> S] : k \in 0..n}

\* A PDF file: unreadable (pdfplumber.open raises), or its pages.
Documents ==
    {[readable |-> FALSE, pages |-> <<>>]}
        \cup {[readable |-> TRUE, pages |-> p] : p \in SeqsUpTo(Pages, MaxPages)}

\* The results of the sentiment classifier; the confidence in hundredths.
Labels == {"POSITIVE", "NEGATIVE"}
Confidences == {50, 70, 90}

\* 0.7, in hundredths.
ConfThreshold == 70

\* ------------------------------------------------------------------------
\* The functions of app.py
\* ------------------------------------------------------------------------

\* extract_text_from_pdf: the texts of the pages, concatenated.
RECURSIVE extract_text_from_pdf(_)
extract_text_from_pdf(pages) ==
    IF pages = <<>> THEN <<>>
    ELSE Head(pages).text \o extract_text_from_pdf(Tail(pages))

\* pd.DataFrame(rows, columns=header) and pd.DataFrame().
DataFrame(rows, header) == [columns |-> header, rows |-> rows]
EmptyFrame == DataFrame(<<>>, <<>>)

\* DataFrame.empty: some axis has length 0.
empty(df) == Len(df.rows) = 0 \/ Len(df.columns) = 0

\* "Revenue" in financials.columns
HasColumn(df, name) == \E k \in DOMAIN df.columns : df.columns[k] = name

\* DataFrame.to_dict(): for each column its values by row.
to_dict(df) ==
    [k \in DOMAIN df.columns |->
        [column |-> df.columns[k],
         values |-> [r \in DOMAIN df.rows |-> df.rows[r][k]]]]

\* extract_financial_summary: the first table of the first page that has
\* tables.
RECURSIVE extract_financial_summary(_)
extract_financial_summary(pages) ==
    IF pages = <<>> THEN EmptyFrame
    ELSE LET tables == Head(pages).tables
         IN  IF tables # <<>>
             THEN DataFrame(Tail(tables[1]), Head(tables[1]))
             ELSE extract_financial_summary(Tail(pages))

\* ScoreSum with a penalty for a sentiment that is not POSITIVE.
ScoreSum_SentimentPenalty(i, s, f) ==
    (IF i.recommendation = LitBuy THEN 30
     ELSE IF i.recommendation = LitHold THEN 15 ELSE 0)
    + (IF s.sentiment = "POSITIVE" THEN 20 ELSE 0 - 20)
    + (IF i.price_target # NotFound /\ FloatGreater(i.price_target, 0)
       THEN 20 ELSE 0)
    + (IF ~empty(f) /\ HasColumn(f, "Revenue") THEN 20 ELSE 0)

\* ScoreSum with the weight of Buy mistyped.
ScoreSum_BuyWeight(i, s, f) ==
    (IF i.recommendation = LitBuy THEN 20
     ELSE IF i.recommendation = LitHold THEN 15 ELSE 0)
    + (IF s.sentiment = "POSITIVE" THEN 20 ELSE 0)
    + (IF i.price_target # NotFound /\ FloatGreater(i.price_target, 0)
       THEN 20 ELSE 0)
    + (IF ~empty(f) /\ HasColumn(f, "Revenue") THEN 20 ELSE 0)

\* The score of calculate_investment_score, before min(score, 100).
ScoreSum(i, s, f) ==
    (IF i.recommendation = LitBuy THEN 30
     ELSE IF i.recommendation = LitHold THEN 15 ELSE 0)
    + (IF s.sentiment = "POSITIVE" THEN 20 ELSE 0)
    + (IF i.price_target # NotFound /\ FloatGreater(i.price_target, 0)
       THEN 20 ELSE 0)
    + (IF ~empty(f) /\ HasColumn(f, "Revenue") THEN 20 ELSE 0)

Min(a, b) == IF a < b THEN a ELSE b

\* RiskTier with the score tested before the confidence.
RiskTier_ScoreFirst(i, s, f, sc) ==
    IF sc > 70 THEN "Low"
    ELSE IF s.confidence < ConfThreshold THEN "High"
    ELSE IF i.recommendation = LitSell \/ empty(f) THEN "High"
    ELSE "Moderate"

\* RiskTier with "and" for "or" in the second test.
RiskTier_SellAndEmpty(i, s, f, sc) ==
    IF s.confidence < ConfThreshold THEN "High"
    ELSE IF i.recommendation = LitSell /\ empty(f) THEN "High"
    ELSE IF sc > 70 THEN "Low"
    ELSE "Moderate"

\* RiskTier with score >= 70 for score > 70.
RiskTier_AtLeast70(i, s, f, sc) ==
    IF s.confidence < ConfThreshold THEN "High"
    ELSE IF i.recommendation = LitSell \/ empty(f) THEN "High"
    ELSE IF sc >= 70 THEN "Low"
    ELSE "Moderate"

\* The risk of calculate_investment_score.
RiskTier(i, s, f, sc) ==
    IF s.confidence < ConfThreshold THEN "High"
    ELSE IF i.recommendation = LitSell \/ empty(f) THEN "High"
    ELSE IF sc > 70 THEN "Low"
    ELSE "Moderate"

\* calculate_investment_score raises ValueError when float() does.
ScoreRaises(i) == i.price_target # NotFound /\ ~FloatOK(i.price_target)

calculate_investment_score(i, s, f) ==
    [score |-> Min(ScoreSum(i, s, f), 100),
     risk  |-> RiskTier(i, s, f, ScoreSum(i, s, f))]

\* buffet_lynch_analysis evaluates its conditions left to right and stops
\* at the first false one; float() raises ValueError on a string it cannot
\* convert.
RevenueTested(i) == i.revenue # NotFound
RevenueHolds(i) == RevenueTested(i) /\ FloatGreater(StripScale(i.revenue), 1)
NetIncomeTested(i) == RevenueHolds(i) /\ i.net_income # NotFound
EPSTested(i) == i.eps # NotFound

StyleRaises(i) ==
    \/ RevenueTested(i) /\ ~FloatOK(StripScale(i.revenue))
    \/ NetIncomeTested(i) /\ ~FloatOK(StripScale(i.net_income))
    \/ EPSTested(i) /\ ~FloatOK(i.eps)

buffet_lynch_analysis(i) ==
    [buffett |-> IF /\ NetIncomeTested(i)
                    /\ FloatGreater(StripScale(i.net_income), 0)
                 THEN "Likely" ELSE "Uncertain",
     lynch   |-> IF EPSTested(i) /\ FloatGreater(i.eps, 0)
                 THEN "Likely" ELSE "Uncertain"]

\* assess_growth_and_risks with confidence <= 0.7 for confidence < 0.7.
assess_growth_and_risks_AtMost(i, s, f) ==
    [growth_prospects |->
        IF s.sentiment = "POSITIVE" /\ i.recommendation = LitBuy THEN "High"
        ELSE IF i.recommendation = LitSell THEN "Low"
        ELSE "Moderate",
     risks |->
        (IF s.confidence <= ConfThreshold
         THEN <<"Uncertain sentiment">> ELSE <<>>)
        \o (IF empty(f) THEN <<"Missing financial data">> ELSE <<>>)
        \o (IF i.price_target = NotFound
            THEN <<"No price target provided">> ELSE <<>>)]

assess_growth_and_risks(i, s, f) ==
    [growth_prospects |->
        IF s.sentiment = "POSITIVE" /\ i.recommendation = LitBuy THEN "High"
        ELSE IF i.recommendation = LitSell THEN "Low"
        ELSE "Moderate",
     risks |->
        (IF s.confidence < ConfThreshold
         THEN <<"Uncertain sentiment">> ELSE <<>>)
        \o (IF empty(f) THEN <<"Missing financial data">> ELSE <<>>)
        \o (IF i.price_target = NotFound
            THEN <<"No price target provided">> ELSE <<>>)]

\* "financial_summary" of the result of Ok: the dictionary of the frame, or
\* the "Not Found" marker.
financial_summary(f) ==
    IF ~empty(f) THEN [marker |-> "", dict |-> to_dict(f)]
    ELSE [marker |-> "Not Found", dict |-> <<>>]

\* ------------------------------------------------------------------------
\* Ok(pdf_path), one call after the other
\* ------------------------------------------------------------------------

VARIABLES
    doc,                \* the file at pdf_path
    pc,                 \* the next call of Ok, "done" or "raised"
    text, info, financials, sentiment, score, risk,
    investment_styles, growth_risks,      \* the locals of Ok
    result,             \* the dictionary Ok returns
    exc                 \* the exception that left Ok

vars ==
    <<doc, pc, text, info, financials, sentiment, score, risk,
      investment_styles, growth_risks, result, exc>>

NoInfo ==
    [price_target |-> <<>>, recommendation |-> <<>>, revenue |-> <<>>,
     net_income |-> <<>>, eps |-> <<>>]
NoSentiment == [sentiment |-> "", confidence |-> 0]
NoStyles == [buffett |-> "", lynch |-> ""]
NoGrowthRisks == [growth_prospects |-> "", risks |-> <<>>]
NoResult ==
    [key_info |-> NoInfo, financial_summary |-> [marker |-> "", dict |-> <<>>],
     sentiment |-> NoSentiment, investment_score |-> 0, risk_level |-> "",
     buffett_likely |-> "", lynch_likely |-> "", growth_prospects |-> "",
     risks |-> <<>>]

Init ==
    /\ doc \in Documents
    /\ pc = "extract_text_from_pdf"
    /\ text = <<>>
    /\ info = NoInfo
    /\ financials = EmptyFrame
    /\ sentiment = NoSentiment
    /\ score = 0
    /\ risk = ""
    /\ investment_styles = NoStyles
    /\ growth_risks = NoGrowthRisks
    /\ result = NoResult
    /\ exc = ""

\* An exception of a call leaves Ok: there is no handler in Ok.
Raise(e) ==
    /\ pc' = "raised"
    /\ exc' = e

\* text = extract_text_from_pdf(pdf_path)
ExtractText ==
    /\ pc = "extract_text_from_pdf"
    /\ IF doc.readable
       THEN /\ text' = extract_text_from_pdf(doc.pages)
            /\ pc' = "extract_key_info"
            /\ exc' = exc
       ELSE /\ Raise("PDFSyntaxError")
            /\ text' = text
    /\ UNCHANGED <<doc, info, financials, sentiment, score, risk,
                   investment_styles, growth_risks, result>>

\* info = extract_key_info(text)
ExtractKeyInfo ==
    /\ pc = "extract_key_info"
    /\ info' = extract_key_info(text)
    /\ pc' = "extract_financial_summary"
    /\ UNCHANGED <<doc, text, financials, sentiment, score, risk,
                   investment_styles, growth_risks, result, exc>>

\* financials = extract_financial_summary(pdf_path)
ExtractFinancialSummary ==
    /\ pc = "extract_financial_summary"
    /\ financials' = extract_financial_summary(doc.pages)
    /\ pc' = "analyze_sentiment"
    /\ UNCHANGED <<doc, text, info, sentiment, score, risk,
                   investment_styles, growth_risks, result, exc>>

\* sentiment = analyze_sentiment(text): the classifier returns a label and
\* a confidence.
AnalyzeSentiment ==
    /\ pc = "analyze_sentiment"
    /\ \E l \in Labels, c \in Confidences :
          sentiment' = [sentiment |-> l, confidence |-> c]
    /\ pc' = "calculate_investment_score"
    /\ UNCHANGED <<doc, text, info, financials, score, risk,
                   investment_styles, growth_risks, result, exc>>

\* sentiment = analyze_sentiment(text): the classifier raises.
AnalyzeSentimentFails ==
    /\ pc = "analyze_sentiment"
    /\ Raise("ClassifierError")
    /\ UNCHANGED <<doc, text, info, financials, sentiment, score, risk,
                   investment_styles, growth_risks, result>>

\* score, risk = calculate_investment_score(info, sentiment, financials)
CalculateInvestmentScore ==
    /\ pc = "calculate_investment_score"
    /\ IF ScoreRaises(info)
       THEN /\ Raise("ValueError")
            /\ UNCHANGED <<score, risk>>
       ELSE /\ score' = calculate_investment_score(info, sentiment, financials).score
            /\ risk' = calculate_investment_score(info, sentiment, financials).risk
            /\ pc' = "buffet_lynch_analysis"
            /\ exc' = exc
    /\ UNCHANGED <<doc, text, info, financials, sentiment,
                   investment_styles, growth_risks, result>>

\* investment_styles = buffet_lynch_analysis(info, financials)
BuffetLynchAnalysis ==
    /\ pc = "buffet_lynch_analysis"
    /\ IF StyleRaises(info)
       THEN /\ Raise("ValueError")
            /\ investment_styles' = investment_styles
       ELSE /\ investment_styles' = buffet_lynch_analysis(info)
            /\ pc' = "assess_growth_and_risks"
            /\ exc' = exc
    /\ UNCHANGED <<doc, text, info, financials, sentiment, score, risk,
                   growth_risks, result>>

\* growth_risks = assess_growth_and_risks(info, sentiment, financials)
AssessGrowthAndRisks ==
    /\ pc = "assess_growth_and_risks"
    /\ growth_risks' = assess_growth_and_risks(info, sentiment, financials)
    /\ pc' = "return"
    /\ UNCHANGED <<doc, text, info, financials, sentiment, score, risk,
                   investment_styles, result, exc>>

\* return {...}
Return ==
    /\ pc = "return"
    /\ result' =
          [key_info          |-> info,
           financial_summary |-> financial_summary(financials),
           sentiment         |-> sentiment,
           investment_score  |-> score,
           risk_level        |-> risk,
           buffett_likely    |-> investment_styles.buffett,
           lynch_likely      |-> investment_styles.lynch,
           growth_prospects  |-> growth_risks.growth_prospects,
           risks             |-> growth_risks.risks]
    /\ pc' = "done"
    /\ UNCHANGED <<doc, text, info, financials, sentiment, score, risk,
                   investment_styles, growth_risks, exc>>

Next ==
    \/ ExtractText
    \/ ExtractKeyInfo
    \/ ExtractFinancialSummary
    \/ AnalyzeSentiment
    \/ AnalyzeSentimentFails
    \/ CalculateInvestmentScore
    \/ BuffetLynchAnalysis
    \/ AssessGrowthAndRisks
    \/ Return

Spec == Init /\ [][Next]_vars

\* ------------------------------------------------------------------------
\* Properties
\* ------------------------------------------------------------------------

\* extract_key_info has returned.
Extracted ==
    pc \notin {"extract_text_from_pdf", "extract_key_info"} /\ doc.readable

\* extract_financial_summary has returned.
Summarized == Extracted /\ pc # "extract_financial_summary"

\* calculate_investment_score has returned.
Scored ==
    \/ pc \in {"buffet_lynch_analysis", "assess_growth_and_risks",
               "return", "done"}
    \/ pc = "raised" /\ exc = "ValueError" /\ risk # ""

Contains(seq, x) == \E k \in DOMAIN seq : seq[k] = x

\* C1: the score calculate_investment_score returns is in [0,100], whatever
\* the extracted fields, the sentiment and the table are, and the call
\* returns for every such input.
C1_ScoreInRange ==
    /\ pc = "calculate_investment_score" => ~ScoreRaises(info)
    /\ Scored => (score >= 0 /\ score <= 100)

C1_Witness ==
    /\ pc = "buffet_lynch_analysis"
    /\ score = 90
    /\ info.price_target # NotFound
    /\ HasColumn(financials, "Revenue")

\* C2: when the confidence is below 0.7 the risk is "High", whatever the
\* recommendation, the table and the score are.
C2_LowConfidenceIsHigh ==
    (Scored /\ sentiment.confidence < 70) => risk = "High"

C2_Witness ==
    /\ Scored
    /\ sentiment.confidence = 50
    /\ info.recommendation = LitBuy
    /\ ~empty(financials)
    /\ score = 90
    /\ risk = "High"

\* No page of the document has a table.
NoTables == \A p \in DOMAIN doc.pages : doc.pages[p].tables = <<>>

\* C3: when the recommendation is Sell or the table is absent the risk is
\* "High", for every sentiment and every score.
C3_SellOrNoTableIsHigh ==
    (Scored /\ (info.recommendation = LitSell \/ NoTables \/ empty(financials)))
        => risk = "High"

C3_Witness ==
    /\ Scored
    /\ info.recommendation = LitSell
    /\ ~empty(financials)
    /\ sentiment = [sentiment |-> "POSITIVE", confidence |-> 90]
    /\ risk = "High"

\* The document and the sentiment of the first end-to-end scenario.
Scenario1 ==
    /\ doc.readable
    /\ doc.pages = <<[text |-> TextScenario, tables |-> <<TableFull>>]>>
    /\ sentiment = [sentiment |-> "POSITIVE", confidence |-> 90]

\* C4: the score is the sum of 30 for Buy or 15 for Hold, 20 for a POSITIVE
\* sentiment, 20 for a price target above 0 and 20 for a table with a
\* "Revenue" column; the first end-to-end scenario is run to its end and
\* gives score 90, risk Low and both style fits Likely.
C4_FixedWeights ==
    /\ Scored =>
          score = (CASE info.recommendation = LitBuy -> 30
                     [] info.recommendation = LitHold -> 15
                     [] OTHER -> 0)
                  + (CASE sentiment.sentiment = "POSITIVE" -> 20
                       [] OTHER -> 0)
                  + (CASE /\ info.price_target # NotFound
                          /\ Float(info.price_target).num > 0 -> 20
                       [] OTHER -> 0)
                  + (CASE /\ financials.rows # <<>>
                          /\ Contains(financials.columns, "Revenue") -> 20
                       [] OTHER -> 0)
    /\ Scenario1 => pc # "raised"
    /\ (Scenario1 /\ pc = "done") =>
          /\ result.investment_score = 90
          /\ result.risk_level = "Low"
          /\ result.buffett_likely = "Likely"
          /\ result.lynch_likely = "Likely"

C4_Witness ==
    /\ Scenario1
    /\ pc = "done"
    /\ result.investment_score = 90

\* "Recommendation: Buy"
LitRecommendationBuy == LitRecommendation \o <<":", " ">> \o LitBuy

\* C5: a text that contains "Recommendation: Buy" in any letter case has
\* the recommendation "Buy".
C5_AnyCaseResolvesToBuy ==
    (Extracted /\ \E i \in DOMAIN text : LitAt(text, i, LitRecommendationBuy))
        => info.recommendation = LitBuy

\* C6: a found value that float() cannot convert never makes the pipeline
\* abort.
C6_ConversionNeverAborts == ~(pc = "raised" /\ exc = "ValueError")

\* C7: an unreadable document gives a result of absent markers, and no
\* failure of the extraction or of the classifier leaves Ok.
C7_NoFaultLeavesOk ==
    /\ exc \notin {"PDFSyntaxError", "ClassifierError"}
    /\ (~doc.readable /\ pc # "extract_text_from_pdf") =>
          /\ pc = "done"
          /\ result.financial_summary.marker = "Not Found"
          /\ \A k \in DOMAIN result.key_info : result.key_info[k] = NotFound

\* The tables of the pages, in document order.
RECURSIVE TablesInOrder(_)
TablesInOrder(pages) ==
    IF pages = <<>> THEN <<>>
    ELSE Head(pages).tables \o TablesInOrder(Tail(pages))

\* The tables that have a row after the header.
NonEmptyTables(pages) == SelectSeq(TablesInOrder(pages), LAMBDA tb : Len(tb) > 1)

\* C8: the summary is the first non-empty table in document order, its
\* first row the columns and its other rows the records, and the empty
\* frame when there is no such table.
C8_FirstNonEmptyTable ==
    Summarized =>
        IF NonEmptyTables(doc.pages) = <<>> THEN empty(financials)
        ELSE LET tb == Head(NonEmptyTables(doc.pages))
             IN  /\ financials.columns = Head(tb)
                 /\ financials.rows = Tail(tb)

\* C9: a risk of "Low" has a score of 75 or 90, a recommendation of Buy or
\* Hold and every one of the three contributions of 20.
C9_LowNeedsAllContributions ==
    (Scored /\ risk = "Low") =>
        /\ score \in {75, 90}
        /\ info.recommendation \in {LitBuy, LitHold}
        /\ sentiment.sentiment = "POSITIVE"
        /\ sentiment.confidence >= 70
        /\ info.price_target # NotFound
        /\ Float(info.price_target).num > 0
        /\ financials.rows # <<>>
        /\ Contains(financials.columns, "Revenue")

C9_Witness ==
    /\ Scored
    /\ risk = "Low"
    /\ score = 75
    /\ info.recommendation = LitHold

\* C10: a result whose risk list has "Uncertain sentiment" or "Missing
\* financial data" has the risk level "High".
C10_RiskListAgreesWithTier ==
    (/\ pc = "done"
     /\ \/ Contains(result.risks, "Uncertain sentiment")
        \/ Contains(result.risks, "Missing financial data"))
        => result.risk_level = "High"

C10_Witness ==
    /\ pc = "done"
    /\ Contains(result.risks, "Missing financial data")
    /\ ~Contains(result.risks, "Uncertain sentiment")
    /\ result.sentiment.confidence = 70
    /\ result.risk_level = "High"

=============================================================================
